---- MODULE Spec2Model ----
(***************************************************************************)
(* Recipe-App-API: the recipe / tag / ingredient REST views and the        *)
(* nested serializer that reconciles tag and ingredient names on recipe    *)
(* create and update, over the relational store they read and write.       *)
(*                                                                         *)
(* One action is one HTTP request handled by one view.  The database runs  *)
(* in autocommit mode (no view or serializer opens a transaction), so every*)
(* ORM statement a handler executed before an exception stays committed.   *)
(***************************************************************************)
EXTENDS Integers, Sequences, FiniteSets, TLC

(***************************************************************************)
(* Bounds of the model.                                                    *)
(***************************************************************************)
MaxRecipes == 2
MaxTags == 2
MaxIngredients == 1
MaxTagList == 2
MaxIngredientList == 1

(***************************************************************************)
(* Request inputs.                                                         *)
(***************************************************************************)
\* The two registered accounts whose tokens are valid.
Users == {1, 2}
\* request.user of a request that carries no valid bearer token.
AnonymousUser == 0
Callers == Users \cup {AnonymousUser}
\* An optional field or query parameter: Absent when the request does not
\* carry it (None after pop(field, None)), Some(v) when it carries v.
Absent == <<>>
Some(v) == <<v>>
\* Tag and ingredient names, in ascending lexicographic order.
NameOrder == <<"a", "b">>
Names == {NameOrder[i] : i \in DOMAIN NameOrder}
Titles == {"t1", "t2"}
DefaultTitle == "t1"
\* Recipe.make_time_minutes and Recipe.price as request bodies carry them;
\* the defaults are what a client that does not vary them sends.
DefaultMinutes == "5"
NotAnInteger == "x"
DefaultPrice == "5.25"
OtherPrice == "7.5"
TooManyDigits == "1234.5"
Description == "d"
\* Recipe.description of a recipe created without one (blank=True).
Blank == ""
\* Values of the multipart field `image` of an upload.
ImageFile == "img"
NotAnImage == "not_an_image"
\* Recipe.image before any upload.
NoImage == ""
\* User.username values; the username is unique.
Usernames == {"u1", "u2", "u3"}

\* Nested lists of {'name': n} objects, reduced to their names.
NameLists(max) == UNION {[1..n -> Names] : n \in 0..max}
TagLists == NameLists(MaxTagList)
IngredientLists == NameLists(MaxIngredientList)
Kinds == {"tag", "ingredient"}

VARIABLES
    users,               \* rows of config_user
    recipe,              \* rows of config_recipe
    tag,                 \* rows of config_tag
    ingredient,          \* rows of config_ingredient
    recipe_tag,          \* rows of the Recipe.tag through table
    recipe_ingredients,  \* rows of the Recipe.ingredients through table
    seq,                 \* next primary key of each table
    last,                \* the request being answered and its response
    mix,                 \* which requests the clients of this run send
    tokens,              \* rows of authtoken_token
    procs                \* the requests in progress, when several run at once

store == <<users, recipe, tag, ingredient, recipe_tag, recipe_ingredients, seq>>
vars == <<users, recipe, tag, ingredient, recipe_tag, recipe_ingredients, seq,
          last, mix, tokens, procs>>

\* The database as one value, as the ORM statements of a handler see it.
DB ==
    [user |-> users, recipe |-> recipe, tag |-> tag, ingredient |-> ingredient,
     recipe_tag |-> recipe_tag, recipe_ingredients |-> recipe_ingredients,
     seq |-> seq]

Commit(db) ==
    /\ users' = db.user
    /\ recipe' = db.recipe
    /\ tag' = db.tag
    /\ ingredient' = db.ingredient
    /\ recipe_tag' = db.recipe_tag
    /\ recipe_ingredients' = db.recipe_ingredients
    /\ seq' = db.seq

\* Primary keys are bounded: a request that would need a key past the bound
\* is not issued.
WithinBounds(db) ==
    /\ db.seq.recipe <= MaxRecipes + 1
    /\ db.seq.tag <= MaxTags + 1
    /\ db.seq.ingredient <= MaxIngredients + 1

(***************************************************************************)
(* ORM primitives.                                                         *)
(***************************************************************************)
Through(kind) == IF kind = "tag" THEN "recipe_tag" ELSE "recipe_ingredients"

\* Model.objects.create(user=..., name=...) on Tag or Ingredient.
objects_create(db, kind, user, name) ==
    LET row == [id |-> db.seq[kind], user |-> user, name |-> name]
    IN [db EXCEPT ![kind] = @ \cup {row}, !.seq[kind] = @ + 1]

\* Variant of get_or_create: objects.create() without the lookup.
get_or_create_always_creates(db, kind, user, name) ==
    [db |-> objects_create(db, kind, user, name), exc |-> "",
     pk |-> db.seq[kind]]

\* Variant of get_or_create_lookup: the lookup by name alone.
get_or_create_lookup_any_user(db, kind, user, name) ==
    {r \in db[kind] : r.name = name}

\* The lookup of Model.objects.get_or_create(user=auth_user, name=...).
get_or_create_lookup(db, kind, user, name) ==
    {r \in db[kind] : r.user = user /\ r.name = name}

\* Model.objects.get_or_create(user=auth_user, **attr): get() raises
\* MultipleObjectsReturned when several rows match.
get_or_create(db, kind, user, name) ==
    LET found == get_or_create_lookup(db, kind, user, name)
    IN IF Cardinality(found) > 1
         THEN [db |-> db, exc |-> "MultipleObjectsReturned", pk |-> 0]
       ELSE IF found = {}
         THEN [db |-> objects_create(db, kind, user, name), exc |-> "",
               pk |-> db.seq[kind]]
       ELSE [db |-> db, exc |-> "", pk |-> (CHOOSE r \in found : TRUE).id]

\* recipe.tag.add(obj) / recipe.ingredients.add(obj): set semantics.
m2m_add(db, kind, recipe_id, pk) ==
    [db EXCEPT ![Through(kind)] = @ \cup {<<recipe_id, pk>>}]

\* instance.tag.clear() / instance.ingredients.clear().
m2m_clear(db, kind, recipe_id) ==
    [db EXCEPT ![Through(kind)] = {p \in @ : p[1] # recipe_id}]

(***************************************************************************)
(* RecipeModelSerializer.                                                  *)
(***************************************************************************)
RECURSIVE get_or_create_attrs(_, _, _, _, _)
get_or_create_attrs(db, kind, auth_user, attrs, recipe_id) ==
    IF attrs = <<>> THEN [db |-> db, exc |-> ""]
    ELSE LET got == get_or_create(db, kind, auth_user, Head(attrs))
         IN IF got.exc # "" THEN [db |-> got.db, exc |-> got.exc]
            ELSE get_or_create_attrs(m2m_add(got.db, kind, recipe_id, got.pk),
                                     kind, auth_user, Tail(attrs), recipe_id)

_get_or_create_tags(db, auth_user, tags, recipe_id) ==
    get_or_create_attrs(db, "tag", auth_user, tags, recipe_id)

_get_or_create_ingredients(db, auth_user, ingredients, recipe_id) ==
    get_or_create_attrs(db, "ingredient", auth_user, ingredients, recipe_id)

\* validated_data.pop(field, default)
pop(value, default) == IF value = Absent THEN default ELSE value[1]

\* The model fields RecipeDetailModelSerializer writes besides the nested
\* lists; link, an optional text as description is, is left out.
ScalarFields == {"title", "make_time_minutes", "price", "description"}
\* The writable fields of the serializer (id is read-only).
WritableFields == ScalarFields \cup {"tag", "ingredients"}
\* The scalar fields the model declares without blank=True.
RequiredFields == {"title", "make_time_minutes", "price"}

\* IntegerField accepts the decimal strings of integers.
IsInteger(str) == \E n \in 0..9 : ToString(n) = str

\* DecimalField(max_digits=5, decimal_places=2)
max_digits == 5
decimal_places == 2
\* Decimal(str) for the numeric strings the requests carry: the number of
\* digits before and after the point, and the value in hundredths.
Decimal ==
    (DefaultPrice :> [whole |-> 1, places |-> 2, hundredths |-> 525])
    @@ (OtherPrice :> [whole |-> 1, places |-> 1, hundredths |-> 750])
    @@ (TooManyDigits :> [whole |-> 4, places |-> 1, hundredths |-> 123450])
\* DecimalField.validate_precision
IsDecimal(str) ==
    /\ str \in DOMAIN Decimal
    /\ Decimal[str].whole + Decimal[str].places <= max_digits
    /\ Decimal[str].places <= decimal_places
    /\ Decimal[str].whole <= max_digits - decimal_places

\* Field.run_validation of a scalar field on a value the request carries.
field_valid(f, value) ==
    IF f = "make_time_minutes" THEN IsInteger(value)
    ELSE IF f = "price" THEN IsDecimal(value)
    ELSE TRUE

\* Field.to_internal_value of a valid value: the integer, the price
\* quantized to hundredths, the text as it is.
to_internal_value(f, value) ==
    IF f = "make_time_minutes" THEN CHOOSE n \in 0..9 : ToString(n) = value
    ELSE IF f = "price" THEN Decimal[value].hundredths
    ELSE value

\* serializer.errors after is_valid(): the fields that are required and
\* missing (unless partial) and the fields whose value does not validate.
errors(data, partial) ==
    {f \in RequiredFields : ~partial /\ data[f] = Absent}
    \cup {f \in ScalarFields :
              data[f] # Absent /\ ~field_valid(f, data[f][1])}

\* RecipeModelSerializer.create(validated_data); validated_data carries the
\* user that perform_create passed to save().
create(db, auth_user, validated_data) ==
    LET tags == pop(validated_data.tag, <<>>)
        ingredients == pop(validated_data.ingredients, <<>>)
        id == db.seq.recipe
        row == [id |-> id, user |-> validated_data.user,
                title |-> validated_data.title[1],
                make_time_minutes |-> validated_data.make_time_minutes[1],
                price |-> validated_data.price[1],
                description |-> pop(validated_data.description, Blank),
                image |-> NoImage]
        db1 == [db EXCEPT !.recipe = @ \cup {row}, !.seq.recipe = @ + 1]
        r2 == _get_or_create_tags(db1, auth_user, tags, id)
        r3 == _get_or_create_ingredients(r2.db, auth_user, ingredients, id)
    IN IF r2.exc # "" THEN [db |-> r2.db, exc |-> r2.exc, pk |-> id]
       ELSE [db |-> r3.db, exc |-> r3.exc, pk |-> id]

\* Variant of save_fields: only the title is set from validated_data.
save_fields_title_only(db, instance, validated_data) ==
    LET new == IF validated_data.title = Absent THEN instance
               ELSE [instance EXCEPT !.title = validated_data.title[1]]
    IN [db EXCEPT !.recipe = {IF r.id = instance.id THEN new ELSE r : r \in @}]

\* for attr, value in validated_data.items(): setattr(instance, attr, value)
\* followed by instance.save().
save_fields(db, instance, validated_data) ==
    LET new == [attr \in DOMAIN instance |->
                   IF attr \in ScalarFields /\ validated_data[attr] # Absent
                   THEN validated_data[attr][1]
                   ELSE instance[attr]]
    IN [db EXCEPT !.recipe = {IF r.id = instance.id THEN new ELSE r : r \in @}]

\* RecipeModelSerializer.update(instance, validated_data).
update(db, auth_user, instance, validated_data) ==
    LET tags == validated_data.tag
        ingredients == validated_data.ingredients
        r1 == IF tags # Absent
              THEN _get_or_create_tags(m2m_clear(db, "tag", instance.id),
                                       auth_user, tags[1], instance.id)
              ELSE [db |-> db, exc |-> ""]
        r2 == IF ingredients # Absent
              THEN _get_or_create_ingredients(
                       m2m_clear(r1.db, "ingredient", instance.id),
                       auth_user, ingredients[1], instance.id)
              ELSE [db |-> r1.db, exc |-> ""]
    IN IF r1.exc # "" THEN r1
       ELSE IF r2.exc # "" THEN r2
       ELSE [db |-> save_fields(r2.db, instance, validated_data), exc |-> ""]

(***************************************************************************)
(* Views: authentication, permission, querysets and object lookup.         *)
(***************************************************************************)
\* Variant of IsAuthenticated: permission_classes = [AllowAny].
IsAuthenticated_allow_any(caller) == TRUE

\* permission_classes = [IsAuthenticated] behind TokenAuthentication.
IsAuthenticated(caller) == caller # AnonymousUser

\* int(str_id) for the decimal strings the requests carry.
int(str_id) == CHOOSE n \in 0..9 : ToString(n) = str_id

\* RecipeModelViewSet._params_to_int: params is the comma-separated string,
\* given as the sequence of its parts.
_params_to_int(params) == {int(params[i]) : i \in DOMAIN params}

\* A queryset is a set of result rows: the model row and, after a filter
\* across a many-to-many relation, the joined rows that matched (one result
\* row per match).
NoJoin == <<>>
AllRows(rows) == {[row |-> r, join |-> NoJoin] : r \in rows}

\* Variant of filter_m2m_in: the join without the restriction to the ids.
filter_m2m_in_any_id(qs, through, ids) ==
    UNION {{[row |-> x.row, join |-> Append(x.join, p[2])] :
               p \in {q \in through : q[1] = x.row.id}} :
           x \in qs}

\* queryset.filter(tag__id__in=ids) / filter(ingredients__id__in=ids): an
\* inner join with the through table, one result row per matching pair.
filter_m2m_in(qs, through, ids) ==
    UNION {{[row |-> x.row, join |-> Append(x.join, p[2])] :
               p \in {q \in through : q[1] = x.row.id /\ q[2] \in ids}} :
           x \in qs}

\* queryset.filter(recipe__isnull=False) on Tag or Ingredient: an inner join
\* with the through table, one result row per recipe the row is attached to.
filter_recipe_notnull(qs, through) ==
    UNION {{[row |-> x.row, join |-> Append(x.join, p[1])] :
               p \in {q \in through : q[2] = x.row.id}} :
           x \in qs}

\* Variant of filter_user: the filter on the owner left out.
filter_user_unscoped(qs, user) == qs

\* queryset.filter(user=self.request.user)
filter_user(qs, user) == {x \in qs : x.row.user = user}

\* Variant of distinct: the queryset returned as joined.
distinct_none(qs) == qs

\* queryset.distinct()
distinct(qs) == {[row |-> x.row, join |-> NoJoin] : x \in qs}

\* Variant of recipe_get_queryset: Recipe.objects.all() for every user.
recipe_get_queryset_unscoped(db, user, tags, ingredients) ==
    AllRows(db.recipe)

\* RecipeModelViewSet.get_queryset
recipe_get_queryset(db, user, tags, ingredients) ==
    LET q0 == AllRows(db.recipe)
        q1 == IF tags # Absent /\ tags[1] # <<>>
              THEN filter_m2m_in(q0, db.recipe_tag, _params_to_int(tags[1]))
              ELSE q0
        q2 == IF ingredients # Absent /\ ingredients[1] # <<>>
              THEN filter_m2m_in(q1, db.recipe_ingredients,
                                 _params_to_int(ingredients[1]))
              ELSE q1
    IN distinct(filter_user(q2, user))

\* Variant of attr_get_queryset: the queryset of the class attribute,
\* Tag.objects.all() / Ingredient.objects.all(), for every user.
attr_get_queryset_unscoped(db, kind, user, assigned_only_param) ==
    AllRows(db[kind])

\* BaseRecipeAttrGenericViewSet.get_queryset
attr_get_queryset(db, kind, user, assigned_only_param) ==
    LET assigned_only == int(pop(assigned_only_param, "0")) # 0
        q0 == AllRows(db[kind])
        q1 == IF assigned_only
              THEN filter_recipe_notnull(q0, db[Through(kind)])
              ELSE q0
    IN distinct(filter_user(q1, user))

\* order_by('-id')
ById(r1, r2) == r1.id > r2.id
\* order_by('-name')
NameRank(n) == CHOOSE i \in DOMAIN NameOrder : NameOrder[i] = n
ByName(r1, r2) == NameRank(r1.name) > NameRank(r2.name)
\* Variant of Before: order_by('id') and order_by('name'), ascending.
Before_ascending(key, r1, r2) ==
    IF key = "-id" THEN ById(r2, r1) ELSE ByName(r2, r1)

\* Whether order_by(key) puts r1 before r2.
Before(key, r1, r2) == IF key = "-id" THEN ById(r1, r2) ELSE ByName(r1, r2)

\* The ways a database may return a queryset under order_by(key): every
\* result row once, in the order of the key; rows it does not order come in
\* any order.
Ordered(qs, key) ==
    {s \in [1..Cardinality(qs) -> qs] :
        /\ \A i, j \in DOMAIN s : i # j => s[i] # s[j]
        /\ \A i, j \in DOMAIN s : i < j => ~Before(key, s[j].row, s[i].row)}

\* The response body of a list: the serialized rows, given by their ids.
Serialize(s) == [i \in DOMAIN s |-> s[i].row.id]

\* GenericAPIView.get_object over the view's queryset.
get_object(qs, pk) == {x.row : x \in {y \in qs : y.row.id = pk}}

\* The fields of the request body the serializer declares; `user` is not
\* one of them.
validated(data) ==
    [f \in WritableFields |->
        IF f \in ScalarFields /\ data[f] # Absent
        THEN Some(to_internal_value(f, data[f][1]))
        ELSE data[f]]

\* serializer.save(user=u): validated_data with the keyword arguments of
\* save() added.
save_kwargs(v, u) ==
    [f \in DOMAIN v \cup {"user"} |-> IF f = "user" THEN u ELSE v[f]]

\* Variant of perform_create: serializer.save() with `user` a writable
\* field of the serializer.
perform_create_trusts_payload(db, request_user, data) ==
    create(db, request_user,
           save_kwargs(validated(data), pop(data.user, request_user)))

\* RecipeModelViewSet.perform_create: serializer.save(user=request.user)
perform_create(db, request_user, data) ==
    create(db, request_user, save_kwargs(validated(data), request_user))

(***************************************************************************)
(* What a view does with a request: the database it leaves, the status it  *)
(* answers and the bodies it may answer with (several when the order of a  *)
(* list is not fixed by its order_by).                                     *)
(***************************************************************************)
Outcome(db, status, bodies) ==
    [db |-> db, status |-> status, bodies |-> bodies, keys |-> {}]

\* The keys of the JSON objects of a 2xx response: the fields of the
\* serializer that rendered it.
Keyed(out, keys) ==
    [out EXCEPT !.keys = IF out.status \in {200, 201} THEN keys ELSE @]

\* A 400 response: the keys of its body are the fields in error.
Invalid(db, errs) == [Outcome(db, 400, {<<>>}) EXCEPT !.keys = errs]

\* A request the view answers without touching the database.
Reject(db, status) == Outcome(db, status, {<<>>})

\* How a write handler that ran `res` answers: an uncaught exception is a
\* 500, and what was written before it stays written.
Finish(res, ok_status, body) ==
    IF res.exc # "" THEN Outcome(res.db, 500, {<<>>})
    ELSE Outcome(res.db, ok_status, {body})

(***************************************************************************)
(* RecipeModelViewSet: one handler per route.                              *)
(***************************************************************************)
\* Meta.fields of the serializers of the recipe and of the tag and
\* ingredient viewsets.
RecipeModelSerializer_fields ==
    {"id", "title", "make_time_minutes", "price", "link", "ingredients", "tag"}
RecipeDetailModelSerializer_fields ==
    RecipeModelSerializer_fields \cup {"description", "image"}
RecipeImageModelSerializer_fields == {"id", "image"}
TagModelSerializer_fields == {"id", "name"}

\* Variant of get_serializer_class: the detail serializer for every
\* action but upload_image.
get_serializer_class_always_detail(action) ==
    IF action = "upload_image" THEN RecipeImageModelSerializer_fields
    ELSE RecipeDetailModelSerializer_fields

\* RecipeModelViewSet.get_serializer_class, given by the fields of the
\* class it returns.
get_serializer_class(action) ==
    IF action = "list" THEN RecipeModelSerializer_fields
    ELSE IF action = "upload_image" THEN RecipeImageModelSerializer_fields
    ELSE RecipeDetailModelSerializer_fields

\* The keys of the objects of a list response; an empty list has none.
ListKeys(qs, fields) == IF qs = {} THEN {} ELSE fields

\* GET /recipe/?tags=..&ingredients=..
recipe_list(db, caller, tags, ingredients) ==
    LET qs == recipe_get_queryset(db, caller, tags, ingredients)
    IN IF ~IsAuthenticated(caller) THEN Reject(db, 401)
       ELSE Keyed(Outcome(db, 200, {Serialize(s) : s \in Ordered(qs, "-id")}),
                  ListKeys(qs, get_serializer_class("list")))

\* POST /recipe/
recipe_create(db, caller, data) ==
    IF ~IsAuthenticated(caller) THEN Reject(db, 401)
    ELSE IF errors(data, FALSE) # {} THEN Invalid(db, errors(data, FALSE))
    ELSE LET res == perform_create(db, caller, data)
         IN Keyed(Finish(res, 201, <<res.pk>>), get_serializer_class("create"))

\* GET /recipe/{pk}/
recipe_retrieve(db, caller, pk) ==
    IF ~IsAuthenticated(caller) THEN Reject(db, 401)
    ELSE IF get_object(recipe_get_queryset(db, caller, Absent, Absent), pk) = {}
        THEN Reject(db, 404)
    ELSE Keyed(Outcome(db, 200, {<<pk>>}), get_serializer_class("retrieve"))

\* Variant of recipe_update: the nested lists reconciled before
\* serializer.is_valid() is consulted.
recipe_update_reconciles_unvalidated(db, caller, pk, partial, data) ==
    LET found == get_object(recipe_get_queryset(db, caller, Absent, Absent), pk)
        lists == [f \in WritableFields |->
                     IF f \in ScalarFields THEN Absent ELSE data[f]]
    IN IF ~IsAuthenticated(caller) THEN Reject(db, 401)
       ELSE IF found = {} THEN Reject(db, 404)
       ELSE LET instance == CHOOSE r \in found : TRUE
            IN IF errors(data, partial) # {}
               THEN Invalid(update(db, caller, instance, lists).db,
                            errors(data, partial))
               ELSE Keyed(Finish(update(db, caller, instance, validated(data)),
                                 200, <<pk>>),
                          get_serializer_class("update"))

\* PUT (partial = FALSE) and PATCH (partial = TRUE) /recipe/{pk}/
recipe_update(db, caller, pk, partial, data) ==
    LET found == get_object(recipe_get_queryset(db, caller, Absent, Absent), pk)
    IN IF ~IsAuthenticated(caller) THEN Reject(db, 401)
       ELSE IF found = {} THEN Reject(db, 404)
       ELSE IF errors(data, partial) # {}
           THEN Invalid(db, errors(data, partial))
       ELSE LET instance == CHOOSE r \in found : TRUE
            IN Keyed(Finish(update(db, caller, instance, validated(data)),
                            200, <<pk>>),
                     get_serializer_class("update"))

\* Variant of delete_recipe: the delete takes the tags and ingredients
\* attached to the recipe with it.
delete_recipe_with_attached(db, pk) ==
    LET tags == {p[2] : p \in {q \in db.recipe_tag : q[1] = pk}}
        ingredients == {p[2] : p \in {q \in db.recipe_ingredients : q[1] = pk}}
    IN [db EXCEPT !.recipe = {r \in @ : r.id # pk},
                  !.tag = {t \in @ : t.id \notin tags},
                  !.ingredient = {t \in @ : t.id \notin ingredients},
                  !.recipe_tag = {p \in @ : p[1] # pk /\ p[2] \notin tags},
                  !.recipe_ingredients =
                      {p \in @ : p[1] # pk /\ p[2] \notin ingredients}]

\* Model.delete(): the row and, by cascade, its through rows.
delete_recipe(db, pk) ==
    [db EXCEPT !.recipe = {r \in @ : r.id # pk},
               !.recipe_tag = {p \in @ : p[1] # pk},
               !.recipe_ingredients = {p \in @ : p[1] # pk}]

\* DELETE /recipe/{pk}/
recipe_destroy(db, caller, pk) ==
    IF ~IsAuthenticated(caller) THEN Reject(db, 401)
    ELSE IF get_object(recipe_get_queryset(db, caller, Absent, Absent), pk) = {}
        THEN Reject(db, 404)
    ELSE Outcome(delete_recipe(db, pk), 204, {<<>>})

\* recipe_image_file_path: 'uploads/recipe/<uuid4><ext>'
recipe_image_file_path == "uploads/recipe/uuid.jpg"

\* Variant of upload_image: serializer.save() before serializer.is_valid().
upload_image_saves_unvalidated(db, caller, pk, image) ==
    LET found == get_object(recipe_get_queryset(db, caller, Absent, Absent), pk)
    IN IF ~IsAuthenticated(caller) THEN Reject(db, 401)
       ELSE IF found = {} THEN Reject(db, 404)
       ELSE LET instance == CHOOSE r \in found : TRUE
                new == [instance EXCEPT !.image = pop(image, NoImage)]
            IN Keyed(Outcome([db EXCEPT !.recipe =
                                 {IF r.id = pk THEN new ELSE r : r \in @}],
                             IF image # Some(ImageFile) THEN 400 ELSE 200,
                             {<<pk>>}),
                     get_serializer_class("upload_image"))

\* POST /recipe/{pk}/upload-image/ : RecipeModelViewSet.upload_image
upload_image(db, caller, pk, image) ==
    LET found == get_object(recipe_get_queryset(db, caller, Absent, Absent), pk)
    IN IF ~IsAuthenticated(caller) THEN Reject(db, 401)
       ELSE IF found = {} THEN Reject(db, 404)
       ELSE IF image # Some(ImageFile) THEN Invalid(db, {"image"})
       ELSE LET instance == CHOOSE r \in found : TRUE
                new == [instance EXCEPT !.image = recipe_image_file_path]
            IN Keyed(Outcome([db EXCEPT !.recipe =
                                 {IF r.id = pk THEN new ELSE r : r \in @}],
                             200, {<<pk>>}),
                     get_serializer_class("upload_image"))

(***************************************************************************)
(* BaseRecipeAttrGenericViewSet (TagGenericViewSet, IngredientGenericView- *)
(* Set): list, update and destroy; no retrieve and no create is routed.    *)
(***************************************************************************)
\* GET /tag/?assigned_only=.. , GET /ingredients/?assigned_only=..
attr_list(db, kind, caller, assigned_only) ==
    LET qs == attr_get_queryset(db, kind, caller, assigned_only)
    IN IF ~IsAuthenticated(caller) THEN Reject(db, 401)
       ELSE Keyed(Outcome(db, 200,
                          {Serialize(s) : s \in Ordered(qs, "-name")}),
                  ListKeys(qs, TagModelSerializer_fields))

\* Variant of attr_create: the viewset with CreateModelMixin and a
\* perform_create that saves the row for request.user.
attr_create_with_create_action(db, kind, caller, data) ==
    IF ~IsAuthenticated(caller) THEN Reject(db, 401)
    ELSE IF data.name = Absent THEN Invalid(db, {"name"})
    ELSE Keyed(Outcome(objects_create(db, kind, caller, data.name[1]), 201,
                       {<<db.seq[kind]>>}),
               TagModelSerializer_fields)

\* POST /tag/ , POST /ingredients/ : the viewset has no create action, so
\* the router binds no handler to POST.
attr_create(db, kind, caller, data) ==
    IF ~IsAuthenticated(caller) THEN Reject(db, 401)
    ELSE Reject(db, 405)

\* GET /tag/{pk}/ , GET /ingredients/{pk}/ : the viewset has no retrieve
\* action, so the router binds no handler to GET.
attr_retrieve(db, kind, caller, pk) ==
    IF ~IsAuthenticated(caller) THEN Reject(db, 401)
    ELSE Reject(db, 405)

\* The fields of the request body TagModelSerializer and
\* IngredientModelSerializer declare (id is read-only): `name`.
attr_validated(data) == [name |-> data.name]

\* PUT and PATCH /tag/{pk}/ , /ingredients/{pk}/
attr_update(db, kind, caller, pk, partial, data) ==
    LET found == get_object(attr_get_queryset(db, kind, caller, Absent), pk)
        name == attr_validated(data).name
    IN IF ~IsAuthenticated(caller) THEN Reject(db, 401)
       ELSE IF found = {} THEN Reject(db, 404)
       ELSE IF ~partial /\ name = Absent THEN Invalid(db, {"name"})
       ELSE LET instance == CHOOSE r \in found : TRUE
                new == IF name = Absent THEN instance
                       ELSE [instance EXCEPT !.name = name[1]]
            IN Keyed(Outcome([db EXCEPT ![kind] =
                                 {IF r.id = pk THEN new ELSE r : r \in @}],
                             200, {<<pk>>}),
                     TagModelSerializer_fields)

\* Variant of delete_attr: the delete cascades to the recipes that
\* reference the row, as over a foreign key with on_delete=CASCADE.
delete_attr_cascades_to_recipes(db, kind, pk) ==
    LET gone == {p[1] : p \in {q \in db[Through(kind)] : q[2] = pk}}
    IN [db EXCEPT ![kind] = {r \in @ : r.id # pk},
                  !.recipe = {r \in @ : r.id \notin gone},
                  !.recipe_tag = {p \in @ : p[1] \notin gone
                                     /\ (kind = "tag" => p[2] # pk)},
                  !.recipe_ingredients = {p \in @ : p[1] \notin gone
                                     /\ (kind = "ingredient" => p[2] # pk)}]

\* Model.delete() of a tag or an ingredient: the row and, by cascade, its
\* through rows.
delete_attr(db, kind, pk) ==
    [db EXCEPT ![kind] = {r \in @ : r.id # pk},
               ![Through(kind)] = {p \in @ : p[2] # pk}]

\* DELETE /tag/{pk}/ , /ingredients/{pk}/
attr_destroy(db, kind, caller, pk) ==
    IF ~IsAuthenticated(caller) THEN Reject(db, 401)
    ELSE IF get_object(attr_get_queryset(db, kind, caller, Absent), pk) = {}
        THEN Reject(db, 404)
    ELSE Outcome(delete_attr(db, kind, pk), 204, {<<>>})

(***************************************************************************)
(* UserProfileRetrieveUpdateAPIView: GET, PUT and PATCH /user/profile/ on  *)
(* request.user.                                                           *)
(***************************************************************************)
\* GET /user/profile/
profile_retrieve(db, caller) ==
    IF ~IsAuthenticated(caller) THEN Reject(db, 401)
    ELSE Outcome(db, 200, {<<caller>>})

\* UserModelSerializer on update: the username given must not be the
\* username of another user; PUT requires it.
profile_serializer_valid(db, caller, partial, username) ==
    IF username = Absent THEN partial
    ELSE \A u \in db.user : u.username = username[1] => u.id = caller

\* PUT (partial = FALSE) and PATCH (partial = TRUE) /user/profile/
profile_update(db, caller, partial, username) ==
    IF ~IsAuthenticated(caller) THEN Reject(db, 401)
    ELSE IF ~profile_serializer_valid(db, caller, partial, username)
        THEN Reject(db, 400)
    ELSE Outcome([db EXCEPT !.user =
                     {IF u.id = caller /\ username # Absent
                        THEN [u EXCEPT !.username = username[1]]
                      ELSE u : u \in @}],
                 200, {<<caller>>})

(***************************************************************************)
(* Requests.  A run is one of three client populations: "nested" clients   *)
(* send recipes with nested tag and ingredient lists, filter lists and     *)
(* rename tags and ingredients; "scalar" clients edit the recipe's own     *)
(* fields, send a `user` field and upload images; "profile" clients read   *)
(* and edit their profile and keep plain recipes.  All use every other     *)
(* route.                                                                  *)
(***************************************************************************)
Optional(S) == {Absent} \cup {Some(v) : v \in S}

Mixes == {"nested", "scalar", "profile"}

RecipePks == 1..MaxRecipes
AttrPks(kind) == 1..(IF kind = "tag" THEN MaxTags ELSE MaxIngredients)

EmptyPayload ==
    [title |-> Absent, make_time_minutes |-> Absent, price |-> Absent,
     description |-> Absent, tag |-> Absent, ingredients |-> Absent,
     user |-> Absent]

\* A body with the required fields of a recipe.
DefaultPayload ==
    [EmptyPayload EXCEPT !.title = Some(DefaultTitle),
                         !.make_time_minutes = Some(DefaultMinutes),
                         !.price = Some(DefaultPrice)]

NestedPayloads ==
    [title : {Some(DefaultTitle)}, make_time_minutes : {Some(DefaultMinutes)},
     price : {Some(DefaultPrice)}, description : {Absent},
     tag : Optional(TagLists), ingredients : Optional(IngredientLists),
     user : {Absent}]

ScalarPayloads(caller) ==
    [title : Optional(Titles), make_time_minutes : {Some(DefaultMinutes)},
     price : {Some(DefaultPrice)}, description : {Absent},
     tag : Optional({<<NameOrder[1]>>}), ingredients : {Absent},
     user : Optional(Users \ {caller})]

PlainPayloads == {DefaultPayload}

\* The bodies of the client that varies the fields of a recipe: numbers
\* that validate and numbers that do not, with and without a tag list, a
\* tag list naming a tag twice included.
FieldPayloads ==
    [title : Optional({DefaultTitle}),
     make_time_minutes : Optional({DefaultMinutes, NotAnInteger}),
     price : Optional({DefaultPrice, OtherPrice, TooManyDigits}),
     description : Optional({Description}),
     tag : Optional({<<NameOrder[1]>>, <<NameOrder[1], NameOrder[1]>>}),
     ingredients : {Absent}, user : {Absent}]

\* Request bodies of an authenticated caller; an unauthenticated request is
\* rejected before its body is read, so one body stands for all.
Payloads(caller) ==
    IF caller = AnonymousUser THEN {EmptyPayload}
    ELSE IF mix = "nested" THEN NestedPayloads
    ELSE IF mix = "scalar" THEN ScalarPayloads(caller)
    ELSE IF mix = "fields"
        THEN (IF caller = 1 THEN FieldPayloads ELSE {EmptyPayload})
    ELSE PlainPayloads

\* The update methods the clients use: PATCH (partial) everywhere, PUT by
\* the clients that send whole recipes' own fields.
Partials == IF mix = "nested" THEN {TRUE} ELSE BOOLEAN

\* Request bodies of PUT and PATCH on a tag or an ingredient.
AttrPayloads(caller) ==
    IF caller = AnonymousUser THEN {[name |-> Absent, user |-> Absent]}
    ELSE IF mix = "nested" THEN [name : Optional(Names), user : {Absent}]
    ELSE [name : Optional({NameOrder[2]}), user : Optional(Users \ {caller})]

\* The comma-separated id lists of ?tags= and ?ingredients=, as the
\* sequences of their parts.
IdParams(caller, pks) ==
    IF caller = AnonymousUser \/ mix # "nested" THEN {Absent}
    ELSE Optional({<<ToString(i)>> : i \in pks}
                  \cup {[i \in pks |-> ToString(i)]})

\* The pk of a detail route; an unauthenticated request is rejected before
\* the pk is looked up, so one pk stands for all.
Targets(caller, pks) == IF caller = AnonymousUser THEN {1} ELSE pks

\* What `last` keeps of a request body the view processed: which fields it
\* carries.
Shape(field) == IF field = Absent THEN "absent" ELSE "given"

ListShape(field) ==
    IF field = Absent THEN "absent"
    ELSE IF Len(field[1]) = 0 THEN "empty"
    ELSE IF \E i, j \in DOMAIN field[1] : i # j /\ field[1][i] = field[1][j]
        THEN "repeated"
    ELSE "given"

PayloadShape(data) ==
    [title |-> Shape(data.title), tag |-> ListShape(data.tag),
     ingredients |-> ListShape(data.ingredients), user |-> Shape(data.user)]

\* What `last` keeps of a request body: the whole body of the client that
\* varies the fields of a recipe, of the others which fields it carries.
Digest(data) == IF mix = "fields" THEN data ELSE PayloadShape(data)

NoResponse ==
    [op |-> "none", caller |-> AnonymousUser, pk |-> 0, data |-> <<>>,
     status |-> 0, body |-> <<>>, keys |-> {}]

Idle == last.op = "none"

Processed(status) ==
    \/ status \in {200, 201, 204, 500}
    \/ mix = "fields" /\ status = 400

\* The server handles the request: it commits what the handler wrote and
\* answers.
Handle(op, caller, pk, data, out) ==
    /\ Idle
    /\ WithinBounds(out.db)
    /\ Commit(out.db)
    /\ \E body \in out.bodies :
          last' = [op |-> op, caller |-> caller, pk |-> pk,
                   data |-> IF Processed(out.status) THEN data ELSE <<>>,
                   status |-> out.status, body |-> body, keys |-> out.keys]
    /\ UNCHANGED <<mix, tokens, procs>>

\* The client reads the response; the next request can be sent.
Receive ==
    /\ ~Idle
    /\ last' = NoResponse
    /\ UNCHANGED <<store, mix, tokens, procs>>

Init ==
    /\ users = {[id |-> 1, username |-> "u1"], [id |-> 2, username |-> "u2"]}
    /\ recipe = {}
    /\ tag = {}
    /\ ingredient = {}
    /\ recipe_tag = {}
    /\ recipe_ingredients = {}
    /\ seq = [recipe |-> 1, tag |-> 1, ingredient |-> 1]
    /\ last = NoResponse
    /\ mix \in Mixes
    /\ tokens = {}
    /\ procs = <<>>

RecipeList ==
    \E caller \in Callers :
        \E tags \in IdParams(caller, AttrPks("tag")),
           ingredients \in IdParams(caller, AttrPks("ingredient")) :
            Handle("recipe_list", caller, 0,
                   [tags |-> tags, ingredients |-> ingredients],
                   recipe_list(DB, caller, tags, ingredients))

RecipeCreate ==
    \E caller \in Callers : \E data \in Payloads(caller) :
        LET out == recipe_create(DB, caller, data)
        IN Handle("recipe_create", caller,
                  IF out.status \in {201, 500} THEN seq.recipe ELSE 0,
                  Digest(data), out)

RecipeRetrieve ==
    \E caller \in Callers : \E pk \in Targets(caller, RecipePks) :
        Handle("recipe_retrieve", caller, pk, <<>>,
               recipe_retrieve(DB, caller, pk))

RecipeUpdate ==
    \E caller \in Callers, partial \in Partials :
        \E pk \in Targets(caller, RecipePks), data \in Payloads(caller) :
            Handle("recipe_update", caller, pk, Digest(data),
                   recipe_update(DB, caller, pk, partial, data))

RecipeDestroy ==
    \E caller \in Callers : \E pk \in Targets(caller, RecipePks) :
        Handle("recipe_destroy", caller, pk,
               [attached |-> \E p \in recipe_tag \cup recipe_ingredients :
                                 p[1] = pk],
               recipe_destroy(DB, caller, pk))

UploadImage ==
    \E caller \in Callers, image \in Optional({ImageFile, NotAnImage}) :
        \E pk \in Targets(caller, RecipePks) :
            /\ mix = "scalar"
            /\ Handle("upload_image", caller, pk, image,
                      upload_image(DB, caller, pk, image))

AttrList ==
    \E kind \in Kinds, caller \in Callers,
       assigned_only \in Optional({"0", "1"}) :
        Handle(kind \o "_list", caller, 0,
               [assigned_only |-> int(pop(assigned_only, "0")) # 0],
               attr_list(DB, kind, caller, assigned_only))

\* POST on the tag and ingredient collections, tried by the clients that
\* send no nested lists.
AttrCreate ==
    \E kind \in Kinds, caller \in Callers :
        \E data \in AttrPayloads(caller) :
            /\ mix \in {"scalar", "profile"}
            /\ Handle(kind \o "_create", caller, 0,
                      [name |-> data.name, user |-> Shape(data.user)],
                      attr_create(DB, kind, caller, data))

AttrRetrieve ==
    \E kind \in Kinds, caller \in Callers :
        \E pk \in Targets(caller, AttrPks(kind)) :
            Handle(kind \o "_retrieve", caller, pk, <<>>,
                   attr_retrieve(DB, kind, caller, pk))

AttrUpdate ==
    \E kind \in Kinds, caller \in Callers, partial \in Partials :
        \E pk \in Targets(caller, AttrPks(kind)),
           data \in AttrPayloads(caller) :
            /\ mix \in {"nested", "scalar"}
            /\ Handle(kind \o "_update", caller, pk,
                      [name |-> data.name, user |-> Shape(data.user)],
                      attr_update(DB, kind, caller, pk, partial, data))

AttrDestroy ==
    \E kind \in Kinds, caller \in Callers :
        \E pk \in Targets(caller, AttrPks(kind)) :
            Handle(kind \o "_destroy", caller, pk,
                   [attached |-> \E p \in DB[Through(kind)] : p[2] = pk],
                   attr_destroy(DB, kind, caller, pk))

ProfileRetrieve ==
    \E caller \in Callers :
        /\ mix = "profile"
        /\ Handle("profile_retrieve", caller, 0, <<>>,
                  profile_retrieve(DB, caller))

ProfileUpdate ==
    \E caller \in Callers, partial \in BOOLEAN,
       username \in Optional(Usernames) :
        /\ mix = "profile"
        /\ Handle("profile_update", caller, 0, username,
                  profile_update(DB, caller, partial, username))

Next ==
    \/ Receive
    \/ RecipeList
    \/ RecipeCreate
    \/ RecipeRetrieve
    \/ RecipeUpdate
    \/ RecipeDestroy
    \/ UploadImage
    \/ AttrList
    \/ AttrCreate
    \/ AttrRetrieve
    \/ AttrUpdate
    \/ AttrDestroy
    \/ ProfileRetrieve
    \/ ProfileUpdate

Spec == Init /\ [][Next]_vars

(***************************************************************************)
(* Properties.                                                             *)
(***************************************************************************)
ListOps == {"recipe_list", "tag_list", "ingredient_list"}
TagOps == {"tag_list", "tag_retrieve", "tag_update", "tag_destroy"}
IngredientOps ==
    {"ingredient_list", "ingredient_retrieve", "ingredient_update",
     "ingredient_destroy"}
AttrRetrieveOps == {"tag_retrieve", "ingredient_retrieve"}
DetailOps ==
    {"recipe_retrieve", "recipe_update", "recipe_destroy", "upload_image",
     "tag_retrieve", "tag_update", "tag_destroy",
     "ingredient_retrieve", "ingredient_update", "ingredient_destroy"}

\* The table a route works on, in the state before the request.
Table(op) ==
    IF op \in TagOps THEN tag
    ELSE IF op \in IngredientOps THEN ingredient
    ELSE recipe

Ids(rows) == {r.id : r \in rows}
NamesOf(list) == {list[i] : i \in DOMAIN list}
\* The tag or ingredient ids a through table attaches to a recipe.
AttachedIn(through, recipe_id) ==
    {p[2] : p \in {q \in through : q[1] = recipe_id}}
OwnedNamed(rows, owner, name) ==
    {r \in rows : r.user = owner /\ r.name = name}

\* A detail request by an authenticated caller on a row that exists and
\* belongs to somebody else.
ForeignTarget(op, caller, pk) ==
    /\ caller # AnonymousUser
    /\ \E r \in Table(op) : r.id = pk /\ r.user # caller

\* C1: a list of recipes, tags or ingredients answered to user A holds only
\* rows owned by A, whatever filters the request carried.
C1_ListReturnsOnlyOwnRows ==
    (last.op \in ListOps /\ last.status = 200) =>
        \A i \in DOMAIN last.body :
            \E r \in Table(last.op) :
                r.id = last.body[i] /\ r.user = last.caller

\* C1 witness: a filtered recipe list answered with rows while a recipe of
\* another user matches the same tag filter.
C1_Witness ==
    /\ last.op = "recipe_list"
    /\ last.status = 200
    /\ last.data.tags # Absent
    /\ Len(last.body) > 0
    /\ \E r \in recipe :
          /\ r.user # last.caller
          /\ AttachedIn(recipe_tag, r.id)
                \cap _params_to_int(last.data.tags[1]) # {}

C3_AnonymousIs401 ==
    [][(last'.op # "none" /\ last'.caller = AnonymousUser)
          => /\ last'.status = 401
             /\ last'.body = <<>>
             /\ UNCHANGED store]_vars

\* C3 witness: a delete of an existing recipe without a token was answered
\* 401 and the recipe is still there.
C3_Witness ==
    /\ last.op = "recipe_destroy"
    /\ last.caller = AnonymousUser
    /\ last.status = 401
    /\ last.pk \in Ids(recipe)

\* C4: a recipe create or update that does not succeed leaves the store as
\* it was before the request.
C4_AllOrNothing ==
    [][(last'.op \in {"recipe_create", "recipe_update"}
        /\ last'.status \notin {200, 201})
          => UNCHANGED store]_vars

\* What find-or-create and attach of the names `list` by `owner` must leave:
\* per name one attached row of the owner, the row that existed when one
\* existed and a new one otherwise, and nothing else attached.
Reconciled(before, after, attached, owner, list) ==
    /\ \A n \in NamesOf(list) :
          LET old == OwnedNamed(before, owner, n)
              now == OwnedNamed(after, owner, n)
          IN /\ Cardinality(Ids(now) \cap attached) = 1
             /\ IF old # {} THEN now = old
                ELSE Cardinality(now) = 1 /\ Ids(now) \cap Ids(before) = {}
    /\ \A id \in attached :
          \E r \in after :
              r.id = id /\ r.user = owner /\ r.name \in NamesOf(list)

Field(kind) == IF kind = "tag" THEN "tag" ELSE "ingredients"

\* The reconciliation a recipe create must have done, for the requests the
\* serializer answered with one of `statuses`.
CreateReconciles(statuses) ==
    \A caller \in Users : \A data \in Payloads(caller) :
        LET out == recipe_create(DB, caller, data)
        IN (out.status \in statuses /\ WithinBounds(out.db)) =>
              \A kind \in Kinds :
                  Reconciled(DB[kind], out.db[kind],
                             AttachedIn(out.db[Through(kind)], seq.recipe),
                             caller, pop(data[Field(kind)], <<>>))

\* C5: a recipe create with a list of names attaches, per name, the
\* requester's existing row of that name or else a new row of the requester,
\* and the recipe ends attached to one row per distinct name and nothing
\* else.
C5_CreateReconcilesNames == Idle => CreateReconciles({201, 500})

\* The same for the creates answered 201 alone.
C5_WhenAnswered201 == Idle => CreateReconciles({201})

\* C6: a recipe update leaves the associations of a kind absent from the
\* payload unchanged and ends with none of a kind given as an empty list,
\* each kind on its own.
C6_AbsentKeepsEmptyClears ==
    [][(last'.op = "recipe_update" /\ last'.status \in {200, 500})
          => /\ last'.data.tag = "absent" =>
                   AttachedIn(recipe_tag', last'.pk)
                     = AttachedIn(recipe_tag, last'.pk)
             /\ last'.data.tag = "empty" =>
                   AttachedIn(recipe_tag', last'.pk) = {}
             /\ last'.data.ingredients = "absent" =>
                   AttachedIn(recipe_ingredients', last'.pk)
                     = AttachedIn(recipe_ingredients, last'.pk)
             /\ last'.data.ingredients = "empty" =>
                   AttachedIn(recipe_ingredients', last'.pk) = {}]_vars

\* The same for the updates answered 200 alone.
C6_WhenAnswered200 ==
    [][(last'.op = "recipe_update" /\ last'.status = 200)
          => /\ last'.data.tag = "absent" =>
                   AttachedIn(recipe_tag', last'.pk)
                     = AttachedIn(recipe_tag, last'.pk)
             /\ last'.data.tag = "empty" =>
                   AttachedIn(recipe_tag', last'.pk) = {}
             /\ last'.data.ingredients = "absent" =>
                   AttachedIn(recipe_ingredients', last'.pk)
                     = AttachedIn(recipe_ingredients, last'.pk)
             /\ last'.data.ingredients = "empty" =>
                   AttachedIn(recipe_ingredients', last'.pk) = {}]_vars

\* The replacement a recipe update with a non-empty list must have done, for
\* the requests the serializer answered with one of `statuses`.
UpdateReplaces(statuses) ==
    \A caller \in Users, partial \in Partials :
        \A pk \in RecipePks, data \in Payloads(caller) :
            LET out == recipe_update(DB, caller, pk, partial, data)
            IN (out.status \in statuses /\ WithinBounds(out.db)) =>
                  \A kind \in Kinds :
                      pop(data[Field(kind)], <<>>) # <<>> =>
                          Reconciled(DB[kind], out.db[kind],
                                     AttachedIn(out.db[Through(kind)], pk),
                                     caller, data[Field(kind)][1])

\* C7: a recipe update with a non-empty list of names ends with the recipe
\* attached to exactly the rows find-or-create resolves for those names;
\* rows attached before under other names are detached.
C7_UpdateReplacesNames == Idle => UpdateReplaces({200, 500})

\* The same for the updates answered 200 alone.
C7_WhenAnswered200 == Idle => UpdateReplaces({200})

\* C8: every tag and every ingredient attached to a recipe has the owner of
\* that recipe.
C8_AttachedRowsHaveRecipeOwner ==
    /\ \A p \in recipe_tag : \A r \in recipe, t \in tag :
          (r.id = p[1] /\ t.id = p[2]) => t.user = r.user
    /\ \A p \in recipe_ingredients : \A r \in recipe, t \in ingredient :
          (r.id = p[1] /\ t.id = p[2]) => t.user = r.user

\* C8 witness: two users each have a tag of the same name attached to a
\* recipe, the second made by a create that named a tag the first user
\* already had.
C8_Witness ==
    /\ last.op = "recipe_create"
    /\ last.status = 201
    /\ \E t1, t2 \in tag :
          /\ t1.name = t2.name
          /\ t1.user # t2.user
          /\ t2.user = last.caller
          /\ t2.id \in AttachedIn(recipe_tag, last.pk)
          /\ \E p \in recipe_tag : p[2] = t1.id /\ p[1] # last.pk

\* C9: the owner of a recipe is the caller of the request that created it,
\* and no request changes the owner of a recipe, a tag or an ingredient.
C9_OwnerIsCreatorAndFixed ==
    [][/\ \A r2 \in recipe' :
             IF r2.id \in Ids(recipe)
               THEN \A r \in recipe : r.id = r2.id => r2.user = r.user
             ELSE last'.op = "recipe_create" /\ r2.user = last'.caller
       /\ \A t2 \in tag' : \A t \in tag : t.id = t2.id => t2.user = t.user
       /\ \A t2 \in ingredient' :
             \A t \in ingredient : t.id = t2.id => t2.user = t.user]_vars

\* C9 witness: an update by the owner that carried a `user` field naming the
\* other user was answered 200, and the recipe is still the caller's.
C9_Witness ==
    /\ last.op = "recipe_update"
    /\ last.status = 200
    /\ last.data.user = "given"
    /\ \E r \in recipe : r.id = last.pk /\ r.user = last.caller

\* The rows of `owner` attached to at least one recipe of `owner`.
AssignedIds(rows, through, owner) ==
    {t.id : t \in
        {x \in rows :
            /\ x.user = owner
            /\ \E r \in recipe :
                  r.user = owner /\ x.id \in AttachedIn(through, r.id)}}

\* C10: a tag or ingredient list with assigned_only=1 holds exactly the
\* caller's rows attached to at least one recipe of the caller, each once;
\* with assigned_only=0 or absent it holds all the caller's rows, each once.
C10_AssignedOnlyList ==
    (last.op \in {"tag_list", "ingredient_list"} /\ last.status = 200) =>
        LET rows == Table(last.op)
            through == IF last.op = "tag_list" THEN recipe_tag
                       ELSE recipe_ingredients
        IN /\ Len(last.body) = Cardinality(NamesOf(last.body))
           /\ NamesOf(last.body) =
                 IF last.data.assigned_only
                   THEN AssignedIds(rows, through, last.caller)
                 ELSE Ids({x \in rows : x.user = last.caller})

\* C10 witness: an assigned_only list returned a tag attached to two recipes
\* and left out a tag of the caller attached to none.
C10_Witness ==
    /\ last.op = "tag_list"
    /\ last.status = 200
    /\ last.data.assigned_only
    /\ \E i \in DOMAIN last.body :
          Cardinality({p \in recipe_tag : p[2] = last.body[i]}) > 1
    /\ \E t \in tag :
          /\ t.user = last.caller
          /\ \A p \in recipe_tag : p[2] # t.id

\* Whether a recipe passes one filter of the recipe list: the parameter is
\* absent, or the recipe is attached to a row whose id the parameter names.
Wanted(param, through, recipe_id) ==
    \/ param = Absent
    \/ \E i \in DOMAIN param[1] :
          int(param[1][i]) \in AttachedIn(through, recipe_id)

\* C11: a recipe list with tag ids and/or ingredient ids holds exactly the
\* caller's recipes with a tag among the tag ids (when given) and an
\* ingredient among the ingredient ids (when given), each once; without
\* filters it holds all the caller's recipes.
C11_FilteredRecipeList ==
    (last.op = "recipe_list" /\ last.status = 200) =>
        /\ Len(last.body) = Cardinality(NamesOf(last.body))
        /\ NamesOf(last.body) =
              Ids({r \in recipe :
                      /\ r.user = last.caller
                      /\ Wanted(last.data.tags, recipe_tag, r.id)
                      /\ Wanted(last.data.ingredients, recipe_ingredients,
                                r.id)})

\* C11 witness: a list filtered by two tag ids and an ingredient id returned
\* a recipe attached to both tags, and left out a recipe of the caller.
C11_Witness ==
    /\ last.op = "recipe_list"
    /\ last.status = 200
    /\ last.data.tags # Absent
    /\ Len(last.data.tags[1]) = 2
    /\ last.data.ingredients # Absent
    /\ \E i \in DOMAIN last.body :
          Cardinality(AttachedIn(recipe_tag, last.body[i])) = 2
    /\ \E r \in recipe :
          r.user = last.caller /\ r.id \notin NamesOf(last.body)

\* C20: an upload-image request on a recipe of the caller is answered 200 or
\* 400; answered 400 (the payload is no valid image, or there is none) it
\* leaves the store as it was, previous image included; answered 200 (only
\* for a valid image) it changes the image of that recipe and nothing else.
C20_UploadTouchesOnlyImage ==
    [][(/\ last'.op = "upload_image"
        /\ \E r \in recipe : r.id = last'.pk /\ r.user = last'.caller) =>
           /\ last'.status \in {200, 400}
           /\ last'.status = 400 => UNCHANGED store
           /\ last'.status = 200 =>
                 /\ last'.data = Some(ImageFile)
                 /\ UNCHANGED <<users, tag, ingredient, recipe_tag,
                                recipe_ingredients, seq>>
                 /\ recipe' =
                       {IF r.id = last'.pk
                          THEN [r EXCEPT !.image = recipe_image_file_path]
                        ELSE r : r \in recipe}]_vars

\* C20 witness: an upload was refused with 400 on a recipe of the caller
\* that still has its earlier image and its tag.
C20_Witness ==
    /\ last.op = "upload_image"
    /\ last.status = 400
    /\ \E r \in recipe :
          /\ r.id = last.pk
          /\ r.user = last.caller
          /\ r.image = recipe_image_file_path
          /\ AttachedIn(recipe_tag, r.id) # {}

\* C20 witness of the other case: an upload answered 200 on a recipe that
\* has a tag, next to another recipe.
C20_WitnessAccepted ==
    /\ last.op = "upload_image"
    /\ last.status = 200
    /\ AttachedIn(recipe_tag, last.pk) # {}
    /\ \E r \in recipe : r.id # last.pk

\* What a user owns: its recipes, tags and ingredients, and the associations
\* of its recipes and of its tags and ingredients.
Owned(owner) ==
    LET mine(rows) == {r \in rows : r.user = owner}
        assoc(through, rows) ==
            {p \in through : \/ p[1] \in Ids(mine(recipe))
                             \/ p[2] \in Ids(mine(rows))}
    IN [recipe |-> mine(recipe), tag |-> mine(tag),
        ingredient |-> mine(ingredient),
        recipe_tag |-> assoc(recipe_tag, tag),
        recipe_ingredients |-> assoc(recipe_ingredients, ingredient)]

\* The id lists a recipe list can be filtered by: absent, or every id.
EveryId(pks) == Optional({[i \in pks |-> ToString(i)]})

\* What a user would be answered, in this state, to its list and retrieve
\* requests.
Answers(owner) ==
    [recipe_list |->
        [f \in EveryId(AttrPks("tag")) \X EveryId(AttrPks("ingredient")) |->
            recipe_list(DB, owner, f[1], f[2]).bodies],
     attr_list |->
        [f \in Kinds \X Optional({"1"}) |->
            attr_list(DB, f[1], owner, f[2]).bodies],
     recipe_retrieve |->
        [pk \in RecipePks |-> recipe_retrieve(DB, owner, pk).status]]

Workers == {1, 2}

EmptyDB ==
    [user |-> {[id |-> 1, username |-> "u1"], [id |-> 2, username |-> "u2"]},
     recipe |-> {}, tag |-> {}, ingredient |-> {}, recipe_tag |-> {},
     recipe_ingredients |-> {},
     seq |-> [recipe |-> 1, tag |-> 1, ingredient |-> 1]]

\* The database holds exactly `db`.
Holds(db) ==
    /\ users = db.user
    /\ recipe = db.recipe
    /\ tag = db.tag
    /\ ingredient = db.ingredient
    /\ recipe_tag = db.recipe_tag
    /\ recipe_ingredients = db.recipe_ingredients
    /\ seq = db.seq

Lists(kind) == IF kind = "tag" THEN TagLists ELSE IngredientLists

\* User 1 has created recipe 1 with the list `before` and recipe 2 with no
\* list; two PATCH requests of user 1, the first on recipe 1, the second on
\* recipe 1 or 2, each with a list of its own, have passed get_object and
\* validation and are about to run update().
RaceInit ==
    /\ last = NoResponse
    /\ mix = "nested"
    /\ tokens = {}
    /\ \E kind \in Kinds :
          \E before \in Lists(kind), names \in [Workers -> Lists(kind)],
             second \in RecipePks :
              /\ Holds(perform_create(
                           perform_create(
                               EmptyDB, 1,
                               [DefaultPayload EXCEPT
                                   ![Field(kind)] = Some(before)]).db,
                           1, DefaultPayload).db)
              /\ procs = [p \in Workers |->
                            [pc |-> "clear", kind |-> kind, caller |-> 1,
                             pk |-> IF p = 1 THEN 1 ELSE second,
                             names |-> names[p],
                             left |-> names[p], got |-> 0, status |-> 0]]

\* What follows the statements for one name: the next name, or the save.
AfterName(left) == IF left = <<>> THEN "save" ELSE "get"

\* instance.tag.clear() / instance.ingredients.clear()
UpdateClear ==
    \E p \in Workers :
        LET w == procs[p]
        IN /\ w.pc = "clear"
           /\ Commit(m2m_clear(DB, w.kind, w.pk))
           /\ procs' = [procs EXCEPT ![p].pc = AfterName(w.left)]
           /\ UNCHANGED <<last, mix, tokens>>

\* get_or_create: the SELECT of get().
UpdateGet ==
    \E p \in Workers :
        LET w == procs[p]
            found == get_or_create_lookup(DB, w.kind, w.caller, Head(w.left))
        IN /\ w.pc = "get"
           /\ procs' =
                 [procs EXCEPT ![p] =
                     IF Cardinality(found) > 1
                       THEN [w EXCEPT !.pc = "done", !.status = 500]
                     ELSE IF found = {} THEN [w EXCEPT !.pc = "create"]
                     ELSE [w EXCEPT !.pc = "add",
                                    !.got = (CHOOSE r \in found : TRUE).id]]
           /\ UNCHANGED <<store, last, mix, tokens>>

\* get_or_create: the INSERT of create(), after a get() that found no row.
UpdateCreate ==
    \E p \in Workers :
        LET w == procs[p]
            db == objects_create(DB, w.kind, w.caller, Head(w.left))
        IN /\ w.pc = "create"
           /\ WithinBounds(db)
           /\ Commit(db)
           /\ procs' = [procs EXCEPT ![p].pc = "add", ![p].got = DB.seq[w.kind]]
           /\ UNCHANGED <<last, mix, tokens>>

\* recipe.tag.add(tag_obj) / recipe.ingredients.add(ingredient_obj)
UpdateAdd ==
    \E p \in Workers :
        LET w == procs[p]
        IN /\ w.pc = "add"
           /\ Commit(m2m_add(DB, w.kind, w.pk, w.got))
           /\ procs' = [procs EXCEPT ![p].left = Tail(w.left),
                                     ![p].pc = AfterName(Tail(w.left))]
           /\ UNCHANGED <<last, mix, tokens>>

\* setattr for the remaining fields, instance.save(), and the 200 answer.
UpdateSave ==
    \E p \in Workers :
        LET w == procs[p]
            instance == CHOOSE r \in recipe : r.id = w.pk
        IN /\ w.pc = "save"
           /\ Commit(save_fields(DB, instance, validated(EmptyPayload)))
           /\ procs' = [procs EXCEPT ![p].pc = "done", ![p].status = 200]
           /\ UNCHANGED <<last, mix, tokens>>

RaceNext ==
    \/ UpdateClear
    \/ UpdateGet
    \/ UpdateCreate
    \/ UpdateAdd
    \/ UpdateSave

RaceSpec == RaceInit /\ [][RaceNext]_vars

\* The names of the rows attached to a recipe.
AttachedNames(kind, recipe_id) ==
    {r.name : r \in {x \in DB[kind] :
                        x.id \in AttachedIn(DB[Through(kind)], recipe_id)}}

\* C18: when two updates of one recipe by its owner, each with a tag or
\* ingredient list, ran at the same time and both were answered 200, the
\* recipe is attached to exactly the names of one of the two lists.
C18_OneRequestWins ==
    (/\ \A p \in Workers : procs[p].pc = "done" /\ procs[p].status = 200
     /\ procs[1].pk = procs[2].pk) =>
        \E p \in Workers :
            AttachedNames(procs[p].kind, procs[p].pk) = NamesOf(procs[p].names)

(***************************************************************************)
(* The user model: UserManager, and the unique constraints of User.  A     *)
(* user row here carries the fields of User the manager sets; an e-mail    *)
(* address is the sequence of its characters.                              *)
(***************************************************************************)
Whitespace == {" "}

\* str.lower() on the characters in use.
lower(c) == IF c = "A" THEN "a" ELSE IF c = "X" THEN "x" ELSE c
str_lower(s) == [i \in DOMAIN s |-> lower(s[i])]

\* str.strip(): leading and trailing whitespace removed.
strip(s) ==
    LET kept == {i \in DOMAIN s : s[i] \notin Whitespace}
    IN IF kept = {} THEN <<>>
       ELSE SubSeq(s, CHOOSE i \in kept : \A j \in kept : i <= j,
                   CHOOSE i \in kept : \A j \in kept : j <= i)

\* str.rsplit("@", 1): the parts before and after the last "@"; one part
\* when there is no "@".
rsplit(s) ==
    LET ats == {i \in DOMAIN s : s[i] = "@"}
    IN IF ats = {} THEN <<s>>
       ELSE LET k == CHOOSE i \in ats : \A j \in ats : j <= i
            IN <<SubSeq(s, 1, k - 1), SubSeq(s, k + 1, Len(s))>>

\* Variant of normalize_email: the whole address lowercased.
normalize_email_lowers_all(email) == str_lower(strip(email))

\* BaseUserManager.normalize_email: email.strip().rsplit("@", 1), and the
\* address put together again with domain_part.lower(); an address without
\* "@" is returned as it came.
normalize_email(email) ==
    LET parts == rsplit(strip(email))
    IN IF Len(parts) < 2 THEN email
       ELSE parts[1] \o <<"@">> \o str_lower(parts[2])

\* user.set_password(password): the hash is stored, not the password.
make_password(password) == <<"pbkdf2_sha256", password>>
check_password(password, encoded) == encoded = make_password(password)

Flags == {"is_active", "is_verified", "is_staff", "is_superuser"}
\* **extra_fields: the flags the caller passes.
ExtraFields == [Flags -> Optional(BOOLEAN)]
NoExtraFields == [f \in Flags |-> Absent]
\* The defaults of the model fields.
FieldDefault(f) == f = "is_active"

\* Variant of user_save: INSERT under no constraint.
user_save_unconstrained(table, row) ==
    [user |-> table \cup {row}, exc |-> "", pk |-> row.id]

\* user.save(): INSERT under the unique constraints of email and username.
user_save(table, row) ==
    IF \E u \in table : u.email = row.email \/ u.username = row.username
      THEN [user |-> table, exc |-> "IntegrityError", pk |-> 0]
    ELSE [user |-> table \cup {row}, exc |-> "", pk |-> row.id]

\* Variant of create_user: the check of the username left out.
create_user_any_username(table, email, username, password, extra_fields) ==
    IF email = <<>>
      THEN [user |-> table, exc |-> "ValueError", pk |-> 0]
    ELSE user_save(table,
             [id |-> Cardinality(table) + 1,
              email |-> normalize_email(email), username |-> username,
              password |-> make_password(password),
              is_active |-> pop(extra_fields.is_active, TRUE),
              is_verified |-> pop(extra_fields.is_verified, FALSE),
              is_staff |-> pop(extra_fields.is_staff, FALSE),
              is_superuser |-> pop(extra_fields.is_superuser, FALSE)])

\* UserManager.create_user
create_user(table, email, username, password, extra_fields) ==
    IF email = <<>>
      THEN [user |-> table, exc |-> "ValueError", pk |-> 0]
    ELSE IF username = ""
      THEN [user |-> table, exc |-> "ValueError", pk |-> 0]
    ELSE user_save(table,
             [id |-> Cardinality(table) + 1,
              email |-> normalize_email(email), username |-> username,
              password |-> make_password(password),
              is_active |-> pop(extra_fields.is_active,
                                FieldDefault("is_active")),
              is_verified |-> pop(extra_fields.is_verified,
                                  FieldDefault("is_verified")),
              is_staff |-> pop(extra_fields.is_staff,
                               FieldDefault("is_staff")),
              is_superuser |-> pop(extra_fields.is_superuser,
                                   FieldDefault("is_superuser"))])

\* extra_fields.setdefault(f, True) for each of the four flags.
setdefault_true(extra_fields) ==
    [f \in Flags |-> Some(pop(extra_fields[f], TRUE))]

\* Variant of create_superuser: the two checks left out.
create_superuser_unchecked(table, email, username, password, extra_fields) ==
    create_user(table, email, username, password,
                setdefault_true(extra_fields))

\* UserManager.create_superuser
create_superuser(table, email, username, password, extra_fields) ==
    LET extra == setdefault_true(extra_fields)
    IN IF extra.is_staff # Some(TRUE)
         THEN [user |-> table, exc |-> "ValueError", pk |-> 0]
       ELSE IF extra.is_superuser # Some(TRUE)
         THEN [user |-> table, exc |-> "ValueError", pk |-> 0]
       ELSE create_user(table, email, username, password, extra)

(***************************************************************************)
(* Calls of the manager, one per run, on an empty table and on a table     *)
(* with one user.                                                          *)
(***************************************************************************)
\* The addresses the calls pass: local part and domain in upper and lower
\* case, with whitespace around, with a second "@", without "@", and none.
LocalParts == {<<"A">>, <<"a">>, <<" ", "A">>, <<"a", "@", "A">>}
Domains == {<<"X">>, <<"x">>, <<"X", " ">>}
Emails ==
    {<<>>, <<"A">>, <<" ", "A">>}
        \cup {l \o <<"@">> \o d : l \in LocalParts, d \in Domains}

Password == "test_pass123"

ManagerCall(op, email, username, extra_fields, res) ==
    /\ Idle
    /\ users' = res.user
    /\ last' = [op |-> op, caller |-> AnonymousUser, pk |-> res.pk,
                data |-> [email |-> email, username |-> username,
                          extra_fields |-> extra_fields],
                status |-> 0,
                body |-> IF res.exc = "" THEN <<>> ELSE <<res.exc>>,
                keys |-> {}]
    /\ UNCHANGED <<recipe, tag, ingredient, recipe_tag, recipe_ingredients,
                   seq, mix, tokens, procs>>

ManagerInit ==
    /\ users \in
          {{},
           create_user({}, <<"a", "@", "x">>, "u1", Password,
                       NoExtraFields).user}
    /\ recipe = {}
    /\ tag = {}
    /\ ingredient = {}
    /\ recipe_tag = {}
    /\ recipe_ingredients = {}
    /\ seq = [recipe |-> 1, tag |-> 1, ingredient |-> 1]
    /\ last = NoResponse
    /\ mix = "profile"
    /\ tokens = {}
    /\ procs = <<>>

CreateUser ==
    \E email \in Emails, username \in {"", "u1", "u2"},
       extra_fields \in ExtraFields :
        ManagerCall("create_user", email, username, extra_fields,
                    create_user(users, email, username, Password,
                                extra_fields))

CreateSuperuser ==
    \E email \in Emails, username \in {"", "u1", "u2"},
       extra_fields \in ExtraFields :
        ManagerCall("create_superuser", email, username, extra_fields,
                    create_superuser(users, email, username, Password,
                                     extra_fields))

ManagerNext ==
    \/ CreateUser
    \/ CreateSuperuser

ManagerSpec == ManagerInit /\ [][ManagerNext]_vars

\* The user the last call of the manager stored.
Stored == CHOOSE u \in users : u.id = last.pk
Succeeded(op) == last.op = op /\ last.body = <<>>

\* C16: create_user with an empty email or an empty username fails with an
\* error and leaves the table of users as it was, whatever the other
\* arguments are.
C16_EmptyEmailOrUsernameFails ==
    [][(/\ last'.op = "create_user"
        /\ (last'.data.email = <<>> \/ last'.data.username = "")) =>
           /\ last'.body = <<"ValueError">>
           /\ UNCHANGED users]_vars

\* C16 witness: create_user was called with an address and extra fields but
\* an empty username, on a table that holds a user.
C16_Witness ==
    /\ last.op = "create_user"
    /\ last.data.username = ""
    /\ last.data.email # <<>>
    /\ last.data.extra_fields.is_verified = Some(TRUE)
    /\ last.body # <<>>
    /\ users # {}

\* `stored` is `given` with what follows its last "@" lowercased and what
\* precedes it kept; without "@" it is `given`.
DomainLowered(given, stored) ==
    /\ Len(stored) = Len(given)
    /\ \A i \in DOMAIN given :
          stored[i] =
              IF \E k \in 1..(i - 1) :
                    given[k] = "@" /\ \A j \in (k + 1)..Len(given) : given[j] # "@"
                THEN lower(given[i])
              ELSE given[i]

\* C17 as claimed: create_user stores the email with its domain part
\* lowercased and its local part exactly as given, and storing a normalized
\* email changes nothing.
C17_DomainLoweredLocalAsGiven ==
    Succeeded("create_user") =>
        /\ DomainLowered(last.data.email, Stored.email)
        /\ normalize_email(Stored.email) = Stored.email

\* C17: create_user stores an email that has an "@" without the whitespace
\* around it, with its domain part lowercased and the rest as given; an
\* email without "@" is stored as given; storing a normalized email changes
\* nothing.
C17_StrippedThenDomainLowered ==
    Succeeded("create_user") =>
        /\ IF "@" \in NamesOf(last.data.email)
             THEN DomainLowered(strip(last.data.email), Stored.email)
           ELSE Stored.email = last.data.email
        /\ normalize_email(Stored.email) = Stored.email

\* C17 witness: create_user stored " A@X " as "A@x".
C17_Witness ==
    /\ Succeeded("create_user")
    /\ last.data.email = <<" ", "A", "@", "X", " ">>
    /\ Stored.email = <<"A", "@", "x">>

\* C17 witness of the plain case: "a@A@X" stored as "a@A@x".
C17_WitnessLocalKept ==
    /\ Succeeded("create_user")
    /\ last.data.email = <<"a", "@", "A", "@", "X">>
    /\ Stored.email = <<"a", "@", "A", "@", "x">>

\* A call of create_superuser that passes is_staff or is_superuser as false
\* fails and leaves the table of users as it was.
RefusesDemotion ==
    (/\ last'.op = "create_superuser"
     /\ \/ last'.data.extra_fields.is_staff = Some(FALSE)
        \/ last'.data.extra_fields.is_superuser = Some(FALSE)) =>
        /\ last'.body = <<"ValueError">>
        /\ UNCHANGED users

C14_WitnessRefused ==
    /\ last.op = "create_superuser"
    /\ last.data.extra_fields.is_superuser = Some(FALSE)
    /\ last.body = <<"ValueError">>
    /\ users # {}

(***************************************************************************)
(* The user API: POST /user/create/ and POST /user/token/, by two clients  *)
(* at once.  post() of the token view runs outside any transaction, so     *)
(* the statements of Token.objects.get_or_create of two requests           *)
(* interleave.                                                             *)
(***************************************************************************)
\* UserModelSerializer.is_valid on create: email, username and password are
\* required, email and username must not be those of a user, and the
\* password has at least 5 characters.
UserModelSerializer_is_valid(table, data) ==
    /\ data.email # <<>>
    /\ data.username # ""
    /\ Len(data.password) >= 5
    /\ \A u \in table : u.email # data.email /\ u.username # data.username

\* UserCreateAPIView: POST /user/create/.  What is_valid let through is
\* created with create_user; an exception of the database is a 500.
user_create(table, data) ==
    IF ~UserModelSerializer_is_valid(table, data)
      THEN [user |-> table, status |-> 400, pk |-> 0]
    ELSE LET res == create_user(table, data.email, data.username,
                                data.password, NoExtraFields)
         IN IF res.exc # "" THEN [user |-> table, status |-> 500, pk |-> 0]
            ELSE [user |-> res.user, status |-> 201, pk |-> res.pk]

\* The one error of a token request whose credentials are not accepted.
InvalidCredentials == "authorization"

\* Variant of AuthTokenSerializer_validate: is_verified not looked at.
AuthTokenSerializer_validate_unverified(table, email, password) ==
    LET found == {u \in table : /\ u.email = email
                                /\ check_password(password, u.password)
                                /\ u.is_active}
    IN IF email = <<>> \/ password = ""
         THEN [user |-> 0, detail |-> "blank"]
       ELSE IF found = {} THEN [user |-> 0, detail |-> InvalidCredentials]
       ELSE [user |-> (CHOOSE u \in found : TRUE).id, detail |-> ""]

\* AuthTokenSerializer.validate: email and password must not be blank; the
\* user is the active, verified account of that email and password, and
\* without one the error is the same whatever was wrong.
AuthTokenSerializer_validate(table, email, password) ==
    LET found == {u \in table : /\ u.email = email
                                /\ check_password(password, u.password)
                                /\ u.is_active
                                /\ u.is_verified}
    IN IF email = <<>> \/ password = ""
         THEN [user |-> 0, detail |-> "blank"]
       ELSE IF found = {} THEN [user |-> 0, detail |-> InvalidCredentials]
       ELSE [user |-> (CHOOSE u \in found : TRUE).id, detail |-> ""]

\* Token.objects.get_or_create(user=user): the SELECT of get().
token_get(table, user) == {t \in table : t.user = user}

\* Variant of token_create: an INSERT under no constraint.
token_create_unconstrained(table, user) ==
    [token |-> table \cup {[key |-> Cardinality(table) + 1, user |-> user]},
     key |-> Cardinality(table) + 1]

\* Token.objects.get_or_create(user=user): the INSERT of create(), with a
\* key of its own.  Token.user is one-to-one: the INSERT fails when the user
\* has a token by now, and get_or_create then answers with that token.
token_create(table, user) ==
    IF token_get(table, user) # {}
      THEN [token |-> table,
            key |-> (CHOOSE t \in token_get(table, user) : TRUE).key]
    ELSE [token |-> table \cup {[key |-> Cardinality(table) + 1,
                                 user |-> user]},
          key |-> Cardinality(table) + 1]

\* The request bodies of the clients.
ApiEmails == {<<"a", "@", "x">>, <<"a", "@", "X">>, <<"A", "@", "x">>}
ApiUsernames == {"u1", "u2"}
ShortPassword == "pw"
WrongPassword == "wrong_pass"

IdleWorker ==
    [pc |-> "idle", op |-> "none", email |-> <<>>, username |-> "",
     password |-> "", user |-> 0, key |-> 0, status |-> 0, detail |-> ""]

\* A client's request answered.
Answer(p, op, email, username, password, user, key, status, detail) ==
    procs' = [procs EXCEPT ![p] =
                 [pc |-> "done", op |-> op, email |-> email,
                  username |-> username, password |-> password,
                  user |-> user, key |-> key, status |-> status,
                  detail |-> detail]]

UserInit ==
    /\ users = {}
    /\ recipe = {}
    /\ tag = {}
    /\ ingredient = {}
    /\ recipe_tag = {}
    /\ recipe_ingredients = {}
    /\ seq = [recipe |-> 1, tag |-> 1, ingredient |-> 1]
    /\ last = NoResponse
    /\ mix = "profile"
    /\ tokens = {}
    /\ procs = [p \in Workers |-> IdleWorker]

Unchanged_recipes ==
    UNCHANGED <<recipe, tag, ingredient, recipe_tag, recipe_ingredients, seq,
                last, mix>>

\* POST /user/create/
UserCreate ==
    \E p \in Workers, email \in ApiEmails, username \in ApiUsernames,
       password \in {Password, ShortPassword} :
        LET out == user_create(users, [email |-> email, username |-> username,
                                       password |-> password])
        IN /\ procs[p].pc = "idle"
           /\ users' = out.user
           /\ Answer(p, "user_create", email, username, password, out.pk, 0,
                     out.status, "")
           /\ UNCHANGED tokens
           /\ Unchanged_recipes

\* A user is verified: user.is_verified = True; user.save()
Verify ==
    \E u \in users :
        /\ ~u.is_verified
        /\ users' = (users \ {u}) \cup {[u EXCEPT !.is_verified = TRUE]}
        /\ UNCHANGED <<tokens, procs>>
        /\ Unchanged_recipes

\* POST /user/token/ : serializer.is_valid(raise_exception=True)
TokenPost ==
    \E p \in Workers, email \in ApiEmails,
       password \in {Password, WrongPassword, ""} :
        LET v == AuthTokenSerializer_validate(users, email, password)
        IN /\ procs[p].pc = "idle"
           /\ IF v.user = 0
                THEN Answer(p, "token", email, "", password, 0, 0, 400,
                            v.detail)
              ELSE procs' = [procs EXCEPT ![p] =
                               [IdleWorker EXCEPT
                                   !.pc = "get", !.op = "token",
                                   !.email = email, !.password = password,
                                   !.user = v.user]]
           /\ UNCHANGED <<users, tokens>>
           /\ Unchanged_recipes

\* Token.objects.get_or_create: get()
TokenGet ==
    \E p \in Workers :
        LET w == procs[p]
            found == token_get(tokens, w.user)
        IN /\ w.pc = "get"
           /\ IF found = {}
                THEN procs' = [procs EXCEPT ![p].pc = "create"]
              ELSE Answer(p, "token", w.email, "", w.password, w.user,
                          (CHOOSE t \in found : TRUE).key, 200, "")
           /\ UNCHANGED <<users, tokens>>
           /\ Unchanged_recipes

\* Token.objects.get_or_create: create(), and the 200 answer.
TokenCreate ==
    \E p \in Workers :
        LET w == procs[p]
            made == token_create(tokens, w.user)
        IN /\ w.pc = "create"
           /\ tokens' = made.token
           /\ Answer(p, "token", w.email, "", w.password, w.user, made.key,
                     200, "")
           /\ UNCHANGED users
           /\ Unchanged_recipes

\* The client reads the response; it can send its next request.
ReadResponse ==
    \E p \in Workers :
        /\ procs[p].pc = "done"
        /\ procs' = [procs EXCEPT ![p] = IdleWorker]
        /\ UNCHANGED <<users, tokens>>
        /\ Unchanged_recipes

UserNext ==
    \/ UserCreate
    \/ Verify
    \/ TokenPost
    \/ TokenGet
    \/ TokenCreate
    \/ ReadResponse

UserSpec == UserInit /\ [][UserNext]_vars

\* C12: tokens are never removed or changed, no user has two, and a token
\* request answered 200 carries the key of its user's one token: a user who
\* has a token is answered that token and nothing is created, also when two
\* requests for the user run at once.
C12_OneTokenPerUser ==
    [][/\ tokens \subseteq tokens'
       /\ \A t1, t2 \in tokens' : t1.user = t2.user => t1 = t2
       /\ \A p \in Workers :
             (procs'[p].op = "token" /\ procs'[p].status = 200) =>
                 [key |-> procs'[p].key, user |-> procs'[p].user] \in tokens'
      ]_vars

\* C12 witness: a token request of a user was answered 200 with the user's
\* token while another request for the same user, which found no token
\* before, is about to create one.
C12_Witness ==
    \E p, q \in Workers :
        /\ procs[p].op = "token"
        /\ procs[p].status = 200
        /\ procs[q].pc = "create"
        /\ procs[q].user = procs[p].user
        /\ token_get(tokens, procs[p].user) # {}

\* C12 witness of the answer: both requests for one user were answered 200.
C12_WitnessBothAnswered ==
    /\ \A p \in Workers : procs[p].op = "token" /\ procs[p].status = 200
    /\ procs[1].user = procs[2].user

\* The account a token request names with its right password.
AccountOf(w) ==
    {u \in users : u.email = w.email /\ check_password(w.password, u.password)}

\* C13: a token request with the email and password of an account that is
\* not verified is answered 400 with the invalid-credentials error, the
\* error of a wrong password; it returns no key and creates no token, and no
\* unverified account has a token.
C13_UnverifiedGetsNoToken ==
    [][/\ \A p \in Workers :
             (/\ procs[p].pc = "idle"
              /\ procs'[p].op = "token"
              /\ \/ \E u \in AccountOf(procs'[p]) : ~u.is_verified
                 \/ procs'[p].password = WrongPassword) =>
                 /\ procs'[p].pc = "done"
                 /\ procs'[p].status = 400
                 /\ procs'[p].detail = InvalidCredentials
                 /\ procs'[p].key = 0
                 /\ tokens' = tokens
       /\ \A t \in tokens' : \A u \in users' : u.id = t.user => u.is_verified
      ]_vars

\* C13 witness: the request of an unverified account with its right password
\* was answered 400, next to a verified account that has a token.
C13_Witness ==
    \E p \in Workers :
        /\ procs[p].op = "token"
        /\ procs[p].status = 400
        /\ procs[p].password = Password
        /\ \E u \in AccountOf(procs[p]) : ~u.is_verified
        /\ tokens # {}

\* No two users share an email or a username.
UniqueUsers(table) ==
    \A u1, u2 \in table :
        (u1.email = u2.email \/ u1.username = u2.username) => u1 = u2

C15_WitnessConstraint ==
    \E p \in Workers :
        /\ procs[p].op = "user_create"
        /\ procs[p].status = 500
        /\ \E u \in users : u.email = normalize_email(procs[p].email)

(***************************************************************************)
(* The fields of a recipe: one client (user 1) creating and updating       *)
(* recipes with bodies that vary make_time_minutes, price, description and *)
(* the tag list; `last` keeps the whole body of each request the           *)
(* serializer saw.                                                         *)
(***************************************************************************)
FieldInit ==
    /\ users = {[id |-> 1, username |-> "u1"], [id |-> 2, username |-> "u2"]}
    /\ recipe = {}
    /\ tag = {}
    /\ ingredient = {}
    /\ recipe_tag = {}
    /\ recipe_ingredients = {}
    /\ seq = [recipe |-> 1, tag |-> 1, ingredient |-> 1]
    /\ last = NoResponse
    /\ mix = "fields"
    /\ tokens = {}
    /\ procs = <<>>

FieldNext ==
    \/ Receive
    \/ RecipeList
    \/ RecipeCreate
    \/ RecipeRetrieve
    \/ RecipeUpdate

FieldSpec == FieldInit /\ [][FieldNext]_vars

WriteOps == {"recipe_create", "recipe_update"}

\* The numeric fields of a body whose value is not a number the field
\* accepts.
BadNumbers(data) ==
    {f \in {"make_time_minutes", "price"} :
        \/ f = "make_time_minutes" /\ data[f] = Some(NotAnInteger)
        \/ f = "price" /\ data[f] = Some(TooManyDigits)}

\* C21: a recipe create or update whose body has an invalid
\* make_time_minutes or price is answered 400 with an error that names each
\* such field, and no table changes: no recipe row, no scalar field, no tag
\* or ingredient row and no attachment, whether or not the body carries a
\* tag list.
C21_InvalidNumberChangesNothing ==
    [][(/\ last'.op \in WriteOps
        /\ Processed(last'.status)
        /\ BadNumbers(last'.data) # {})
       => (/\ last'.status = 400
           /\ BadNumbers(last'.data) \subseteq last'.keys
           /\ UNCHANGED store)]_vars

\* An update of an existing recipe with a price of too many digits and a
\* tag list was answered 400 naming price.
C21_Witness ==
    /\ last.op = "recipe_update"
    /\ last.status = 400
    /\ last.data.price = Some(TooManyDigits)
    /\ last.data.tag = Some(<<NameOrder[1]>>)
    /\ "price" \in last.keys
    /\ \E r \in recipe : r.id = last.pk /\ <<r.id, 1>> \notin recipe_tag

\* A create with a make_time_minutes that is no integer and a tag list was
\* answered 400 naming make_time_minutes.
C21_WitnessCreate ==
    /\ last.op = "recipe_create"
    /\ last.status = 400
    /\ last.data.make_time_minutes = Some(NotAnInteger)
    /\ last.data.tag # Absent
    /\ last.keys = {"make_time_minutes"}

\* The value a scalar field holds after it was set from the request value:
\* the integer of make_time_minutes, the hundredths of price, the text of
\* title and description.
Given(f, value) ==
    IF f = "make_time_minutes" THEN (IF value = DefaultMinutes THEN 5 ELSE -1)
    ELSE IF f = "price"
        THEN (IF value = DefaultPrice THEN 525
              ELSE IF value = OtherPrice THEN 750 ELSE -1)
    ELSE value

\* C22: an update of a recipe answered 200 sets each scalar field the body
\* carries to the value given and leaves every scalar field the body does
\* not carry, the image, the owner and the id of the recipe as they were;
\* no other recipe row changes.
C22_PatchOverwritesPresentFields ==
    [][(last'.op = "recipe_update" /\ last'.status = 200)
       => \E r \in recipe :
             /\ r.id = last'.pk
             /\ recipe' = (recipe \ {r}) \cup
                   {[f \in DOMAIN r |->
                        IF f \in ScalarFields /\ last'.data[f] # Absent
                        THEN Given(f, last'.data[f][1])
                        ELSE r[f]]}]_vars

\* A PATCH that carried only a price was answered 200 on a recipe whose
\* description an earlier request had set: the price is the new one, the
\* description is still there.
C22_Witness ==
    /\ last.op = "recipe_update"
    /\ last.status = 200
    /\ last.data.price = Some(OtherPrice)
    /\ last.data.description = Absent
    /\ last.data.title = Absent
    /\ last.data.make_time_minutes = Absent
    /\ \E r \in recipe :
          /\ r.id = last.pk
          /\ r.price = 750
          /\ r.description = Description
          /\ r.user = last.caller

DestroyOps == {"tag_destroy", "ingredient_destroy"}
KindOf(op) == IF op \in TagOps THEN "tag" ELSE "ingredient"

\* C23: a delete of a tag or an ingredient answered 204 removes that one
\* row, which the caller owned, and the through rows that attach it, and
\* nothing else: every recipe row stays as it was (scalar fields, owner),
\* as do its attachments to other rows, the other rows of the table and
\* the table and attachments of the other kind.
C23_AttrDeleteKeepsRecipes ==
    [][(last'.op \in DestroyOps /\ last'.status = 204)
       => LET kind == KindOf(last'.op)
              other == CHOOSE k \in Kinds : k # kind
          IN /\ \E r \in DB[kind] :
                   /\ r.id = last'.pk
                   /\ r.user = last'.caller
                   /\ DB'[kind] = DB[kind] \ {r}
             /\ DB'[Through(kind)] =
                   {p \in DB[Through(kind)] : p[2] # last'.pk}
             /\ recipe' = recipe
             /\ DB'[other] = DB[other]
             /\ DB'[Through(other)] = DB[Through(other)]
             /\ users' = users]_vars

\* A tag that was attached to a recipe was deleted by its owner: the
\* recipe is still there, with another tag still attached.
C23_Witness ==
    /\ last.op = "tag_destroy"
    /\ last.status = 204
    /\ last.data.attached
    /\ \E r \in recipe :
          /\ r.user = last.caller
          /\ AttachedIn(recipe_tag, r.id) # {}
    /\ \A t \in tag : t.id # last.pk

\* A list of names without the later occurrences of a name.
RECURSIVE Dedup(_)
Dedup(list) ==
    IF list = <<>> THEN <<>>
    ELSE LET init == Dedup(SubSeq(list, 1, Len(list) - 1))
             x == list[Len(list)]
         IN IF x \in NamesOf(init) THEN init ELSE Append(init, x)

\* A request body with its two lists freed of repeated names.
DedupLists(data) ==
    [data EXCEPT !.tag = IF @ = Absent THEN @ ELSE Some(Dedup(@[1])),
                 !.ingredients = IF @ = Absent THEN @ ELSE Some(Dedup(@[1]))]

\* The bodies that name a tag or an ingredient more than once.
RepeatingPayloads ==
    {data \in NestedPayloads :
        "repeated" \in {ListShape(data.tag), ListShape(data.ingredients)}}

\* C24: whatever the store holds, a recipe create or update whose tag or
\* ingredient list names a name more than once leaves the store and answers
\* as the same request with the repeated names removed does; in particular
\* it creates at most one row for the name and attaches it once.
C24_RepeatedNameAsOnce ==
    Idle =>
        \A caller \in Users : \A data \in RepeatingPayloads :
            /\ recipe_create(DB, caller, data)
                  = recipe_create(DB, caller, DedupLists(data))
            /\ \A pk \in RecipePks, partial \in BOOLEAN :
                  recipe_update(DB, caller, pk, partial, data)
                     = recipe_update(DB, caller, pk, partial, DedupLists(data))

\* A create that named one new tag twice was answered 201: there is one
\* tag row, attached to the new recipe.
C24_Witness ==
    /\ last.op = "recipe_create"
    /\ last.status = 201
    /\ last.data.tag = "repeated"
    /\ Cardinality(tag) = 1
    /\ \E t \in tag :
          /\ t.user = last.caller
          /\ recipe_tag = {<<last.pk, t.id>>}

\* An update that named one tag twice was answered 200 on a recipe that
\* has that one tag attached.
C24_WitnessUpdate ==
    /\ last.op = "recipe_update"
    /\ last.status = 200
    /\ last.data.tag = "repeated"
    /\ Cardinality(AttachedIn(recipe_tag, last.pk)) = 1

\* The name of the row of a tag or ingredient list that has the given id.
NameIn(op, id) == (CHOOSE r \in Table(op) : r.id = id).name

\* C25: the rows of a recipe list come in descending order of id, so a
\* recipe created later precedes one created earlier; the rows of a tag or
\* an ingredient list come in descending order of name; both with and
\* without filters.
C25_ListsAreOrdered ==
    (last.op \in ListOps /\ last.status = 200) =>
        \A i, j \in DOMAIN last.body :
            i < j =>
                IF last.op = "recipe_list"
                THEN last.body[i] > last.body[j]
                ELSE NameRank(NameIn(last.op, last.body[i]))
                        >= NameRank(NameIn(last.op, last.body[j]))

\* A tag list of two tags of different names was answered, the later name
\* first, to a request with assigned_only set.
C25_Witness ==
    /\ last.op = "tag_list"
    /\ last.status = 200
    /\ last.data.assigned_only
    /\ Len(last.body) = 2
    /\ NameIn(last.op, last.body[1]) = NameOrder[2]
    /\ NameIn(last.op, last.body[2]) = NameOrder[1]
    /\ last.body[1] < last.body[2]

\* A recipe list filtered by tags was answered with two recipes.
C25_WitnessRecipes ==
    /\ last.op = "recipe_list"
    /\ last.status = 200
    /\ last.data.tags # Absent
    /\ last.body = <<2, 1>>

SummaryKeys == {"id", "title", "make_time_minutes", "price", "link"}
DetailOnlyKeys == {"description", "image"}
RecipeDetailOps == {"recipe_retrieve", "recipe_create", "recipe_update"}

\* The keys of the recipe objects of the responses: of a list that returned
\* rows `list`, of a retrieve, create or update answered 200 or 201 `list`
\* and the detail-only keys.
RecipeKeysAre(list) ==
    /\ (last.op = "recipe_list" /\ last.status = 200 /\ Len(last.body) > 0)
          => last.keys = list
    /\ (last.op \in RecipeDetailOps /\ last.status \in {200, 201})
          => last.keys = list \cup DetailOnlyKeys

\* C26 as stated: each recipe of a list response carries exactly id, title,
\* make_time_minutes, price and link, and the retrieve, create and update
\* responses carry these plus description and image.
C26_ListHasExactlySummaryKeys == RecipeKeysAre(SummaryKeys)

\* C26 amended: each recipe of a list response carries exactly id, title,
\* make_time_minutes, price, link, ingredients and tag, never description
\* or image; the retrieve, create and update responses carry the list
\* fields plus description and image.
C26_ListHasSummaryAndNestedKeys ==
    /\ RecipeKeysAre(SummaryKeys \cup {"ingredients", "tag"})
    /\ (last.op = "recipe_list") => last.keys \cap DetailOnlyKeys = {}

\* A list was answered with a recipe that has a description and a tag: its
\* object carries the tag list and no description.
C26_Witness ==
    /\ last.op = "recipe_list"
    /\ last.status = 200
    /\ Len(last.body) > 0
    /\ "tag" \in last.keys
    /\ "description" \notin last.keys
    /\ \E r \in recipe :
          /\ r.id = last.body[1]
          /\ r.description = Description
          /\ AttachedIn(recipe_tag, r.id) # {}

\* The same recipe was retrieved: the object carries the description.
C26_WitnessDetail ==
    /\ last.op = "recipe_retrieve"
    /\ last.status = 200
    /\ "description" \in last.keys
    /\ "tag" \in last.keys
    /\ \E r \in recipe : r.id = last.pk /\ r.description = Description

\* C27 as stated: in every reachable state no two tag rows and no two
\* ingredient rows have the same owner and the same name, and no recipe
\* create or update has failed (find-or-create raising on an ambiguous
\* name is the only way one fails).
C27_OwnerNameIdentifiesOneRow ==
    /\ \A kind \in Kinds : \A r1, r2 \in DB[kind] :
          (r1.user = r2.user /\ r1.name = r2.name) => r1 = r2
    /\ last.op \in WriteOps => last.status # 500

\* C28 as stated: when two updates by one user, of one recipe or of two,
\* ran at the same time, both named a tag (or ingredient) name and both
\* were answered 200, the user owns exactly one row of that name and the
\* recipe of each request is attached to it.
C28_ConcurrentFindOrCreateOneRow ==
    (\A p \in Workers : procs[p].pc = "done" /\ procs[p].status = 200) =>
        \A n \in NamesOf(procs[1].names) \cap NamesOf(procs[2].names) :
            LET rows == OwnedNamed(DB[procs[1].kind], procs[1].caller, n)
            IN /\ Cardinality(rows) = 1
               /\ \A p \in Workers :
                     \A r \in rows :
                         r.id \in AttachedIn(DB[Through(procs[p].kind)],
                                             procs[p].pk)

AttrCreateOps == {"tag_create", "ingredient_create"}

\* C29: a POST on the tag or the ingredient collection is answered 405 (401
\* without a valid token) and leaves the store unchanged; a request that
\* leaves a tag or ingredient row with an id no row had before is a recipe
\* create or update, and every such row is owned by the user of that
\* request.
C29_AttrRowsComeFromRecipeWrites ==
    [][/\ last'.op \in AttrCreateOps
          => /\ last'.status =
                   IF last'.caller = AnonymousUser THEN 401 ELSE 405
             /\ UNCHANGED store
       /\ \A kind \in Kinds :
             \A r \in DB'[kind] :
                 r.id \notin Ids(DB[kind])
                    => /\ last'.op \in WriteOps
                       /\ r.user = last'.caller]_vars

\* A user who owns a tag posted to the tag collection and was answered 405.
C29_Witness ==
    /\ last.op = "tag_create"
    /\ last.status = 405
    /\ last.caller # AnonymousUser
    /\ \E t \in tag : t.user = last.caller

\* A recipe update created a tag row for its caller while the other user
\* owns a tag of the same name.
C29_WitnessCreated ==
    /\ last.op = "recipe_update"
    /\ last.status = 200
    /\ \E t1, t2 \in tag :
          /\ t1.id = seq.tag - 1
          /\ t1.user = last.caller
          /\ t1.id \in AttachedIn(recipe_tag, last.pk)
          /\ t2.user # last.caller
          /\ t2.name = t1.name
          /\ t2.id < t1.id

RecipeOps ==
    {"recipe_list", "recipe_create", "recipe_retrieve", "recipe_update",
     "recipe_destroy", "upload_image"}

\* The ids a tag or ingredient list answers to `owner` in the store after
\* the step, whichever order the rows come in.
ListedAfter(kind, owner, assigned_only) ==
    UNION {NamesOf(body) :
              body \in attr_list(DB', kind, owner, assigned_only).bodies}

\* C30: a request on a recipe route deletes no tag and no ingredient row:
\* every row is there afterwards with its id, name and owner; after a
\* request that changed the store each row is in its owner's unfiltered
\* list, and in the owner's assigned_only list exactly when some recipe
\* still references it.
C30_RecipeOpsKeepAttrRows ==
    [][last'.op \in RecipeOps
       => \A kind \in Kinds :
              /\ DB[kind] \subseteq DB'[kind]
              /\ (UNCHANGED store) \/
                    (\A t \in DB[kind] :
                        /\ t.id \in ListedAfter(kind, t.user, Absent)
                        /\ (t.id \in ListedAfter(kind, t.user, Some("1")))
                              <=> (\E p \in DB'[Through(kind)] :
                                      p[2] = t.id))]_vars

\* A recipe with attachments was deleted; a tag of its owner is still there
\* and no recipe references it.
C30_Witness ==
    /\ last.op = "recipe_destroy"
    /\ last.status = 204
    /\ last.data.attached
    /\ recipe = {}
    /\ \E t \in tag : t.user = last.caller

\* An update cleared the tags of a recipe; a tag of its owner is still there
\* and no recipe references it.
C30_WitnessCleared ==
    /\ last.op = "recipe_update"
    /\ last.status = 200
    /\ last.data.tag = "empty"
    /\ \E t \in tag :
          /\ t.user = last.caller
          /\ \A p \in recipe_tag : p[2] # t.id

====
